---- MODULE Spec2Model ----
(***************************************************************************)
(* Model of af_opt/components/airfoil.py: the conversions between airfoil  *)
(* surface coordinates and CST coefficients (coords2cst, cst2coords) and   *)
(* AirfoilComponent.compute_coords.                                        *)
(*                                                                         *)
(* Numbers are binary floating-point values, as numpy's float64 arrays     *)
(* are, in a format scaled down to Prec significand bits: a value v is     *)
(* held as the integer v * 2^FracBits, gradual underflow included, and     *)
(* every arithmetic operation rounds its exact result to the nearest       *)
(* value of the format, ties to even.                                      *)
(***************************************************************************)
EXTENDS Integers, Sequences, FiniteSets, TLC

\* options: the component's configuration (n_ca, n_th, n_coords).
\* arrays:  what the caller holds to pass: coefficient arrays or coordinates.
\* pc, call, ret: whether a call has been made ("done") or not ("idle"), the
\*          call's operation and arguments, and what it returned.
\* memo:    an earlier cst2coords call and its result, kept by the caller.
VARIABLES options, arrays, pc, call, ret, memo

vars == <<options, arrays, pc, call, ret, memo>>

\* ---------------------------------------------------------------- bounds
Prec == 4
FracBits == 10
MaxN == 2
MaxCoords == 4
MaxOverride == 3
MaxLen == 3
MaxDecimals == 1

\* ------------------------------------------------- floating-point kernel
Unit == 2 ^ FracBits

Abs(n) == IF n < 0 THEN 0 - n ELSE n

Sign(n) == IF n < 0 THEN 0 - 1 ELSE 1

RECURSIVE BitLen(_)
BitLen(n) == IF n = 0 THEN 0 ELSE 1 + BitLen(n \div 2)

\* The spacing of the format's values around magnitude n.
Spacing(b) == IF b > Prec THEN 2 ^ (b - Prec) ELSE 1

Gran(n) == Spacing(BitLen(Abs(n)))

IsFloat(n) == Abs(n) % Gran(n) = 0

\* Of the neighbours lo and lo + g of a / den, the nearer; the one with the
\* even significand when a / den is halfway.
Nearest(a, den, g, lo) ==
    IF 2 * (a - lo * den) < g * den THEN lo
    ELSE IF 2 * (a - lo * den) > g * den THEN lo + g
    ELSE IF (lo \div g) % 2 = 0 THEN lo ELSE lo + g

Floor(q, g) == (q \div g) * g

RoundIn(a, den, g) == Nearest(a, den, g, Floor(a \div den, g))

RoundAbs(a, den) == RoundIn(a, den, Gran(a \div den))

\* num / den (den > 0, in units of 2^-FracBits) rounded to the nearest value
\* of the format, ties to the even significand.
RN(num, den) == Sign(num) * RoundAbs(Abs(num), den)

FAdd(a, b) == RN(a + b, 1)
FSub(a, b) == RN(a - b, 1)
FMul(a, b) == RN(a * b, Unit)
FDiv(a, b) == RN(Sign(b) * a * Unit, Abs(b))
FromInt(k) == RN(k * Unit, 1)

\* The integer part of the square root of n >= 0.
Step(s, n) == IF (s + 1) * (s + 1) <= n THEN s + 1 ELSE s

RECURSIVE ISqrt(_)
ISqrt(n) == IF n < 2 THEN n ELSE Step(2 * ISqrt(n \div 4), n)

\* Of the neighbours lo and lo + g of the square root of w, the nearer.
NearestRoot(w, g, lo) ==
    IF 4 * w < (2 * lo + g) * (2 * lo + g) THEN lo
    ELSE IF 4 * w > (2 * lo + g) * (2 * lo + g) THEN lo + g
    ELSE IF (lo \div g) % 2 = 0 THEN lo ELSE lo + g

RootIn(w, fl) == NearestRoot(w, Gran(fl), Floor(fl, Gran(fl)))

\* x ** 0.5, correctly rounded.
FSqrt(a) == RootIn(a * Unit, ISqrt(a * Unit))

\* x ** r for an integer r >= 0, by repeated multiplication.
RECURSIVE IPow(_, _)
IPow(x, r) == IF r = 0 THEN Unit ELSE FMul(IPow(x, r - 1), x)

\* The integer nearest to s / Unit (s >= 0), the even one when halfway.
NearestInt(s, q) ==
    IF 2 * (s - q * Unit) < Unit THEN q
    ELSE IF 2 * (s - q * Unit) > Unit THEN q + 1
    ELSE IF q % 2 = 0 THEN q ELSE q + 1

\* numpy.rint: to the nearest integer, ties to even.
Rint(a) ==
    IF Gran(a) >= Unit THEN a
    ELSE Sign(a) * NearestInt(Abs(a), Abs(a) \div Unit) * Unit

RoundAt(v, ten) == FDiv(Rint(FMul(v, ten)), ten)

\* numpy.round(v, p) for p >= 0: rint(v * 10**p) / 10**p.
NpRound(v, p) == RoundAt(v, FromInt(10 ^ p))

\* ------------------------------------------------------- numpy arrays
\* Python's None, and a value where None may stand instead.
None == [kind |-> "None"]

Some(v) == [kind |-> "some", val |-> v]

\* The length two one-dimensional arrays broadcast to, 0 - 1 when they do not.
BroadcastLen(m, n) ==
    IF m = n THEN n
    ELSE IF m = 1 THEN n
    ELSE IF n = 1 THEN m
    ELSE 0 - 1

At(a, i) == IF Len(a) = 1 THEN a[1] ELSE a[i]

\* a + b and a - b on arrays: elementwise with broadcasting; a shape
\* mismatch raises ValueError.
NpAdd(a, b) ==
    IF BroadcastLen(Len(a), Len(b)) < 0 THEN [status |-> "shape_mismatch"]
    ELSE [status |-> "ok",
          val |-> [i \in 1..BroadcastLen(Len(a), Len(b)) |->
                     FAdd(At(a, i), At(b, i))]]

NpSub(a, b) ==
    IF BroadcastLen(Len(a), Len(b)) < 0 THEN [status |-> "shape_mismatch"]
    ELSE [status |-> "ok",
          val |-> [i \in 1..BroadcastLen(Len(a), Len(b)) |->
                     FSub(At(a, i), At(b, i))]]

\* a / 2 on an array.
NpHalf(a) == [i \in 1..Len(a) |-> RN(a[i], 2)]

NpRoundArr(a, p) == [i \in 1..Len(a) |-> NpRound(a[i], p)]

\* ------------------------------------------------ parameter grid (util)
\* cos(pi * i / d) for 0 <= i <= d, in units of 1 / CosScale, as a math
\* library evaluates it: argument reduction to [0, pi/2], then the Taylor
\* polynomial of degree 8 in fixed point, by Horner's rule.
CosScale == 2 ^ 12

PiFx == (3217 * CosScale) \div 1024

Horner(t2, h, k) == CosScale - ((t2 * h) \div CosScale) \div k

Taylor(t2) ==
    Horner(t2, Horner(t2, Horner(t2, Horner(t2, CosScale, 56), 30), 12), 2)

Square(th) == (th * th) \div CosScale

RECURSIVE CosFx(_, _)
CosFx(i, d) ==
    IF 2 * i > d THEN 0 - CosFx(d - i, d)
    ELSE Taylor(Square((PiFx * i) \div d))

FCos(i, d) == RN(CosFx(i, d) * Unit, CosScale)

\* cosspace(st, ed, n): n cosine-spaced values from st to ed,
\* st + (ed - st) * (1 - cos(pi * i / (n - 1))) / 2; n < 2 is rejected.
cosspace(st, ed, n) ==
    IF n < 2 THEN [status |-> "invalid_argument"]
    ELSE [status |-> "ok",
          val |-> [k \in 1..n |->
                     FAdd(st, RN(FMul(FSub(ed, st),
                                      FSub(Unit, FCos(k - 1, n - 1))), 2))]]

\* ------------------------------------------------ the CST library (cst)
N1Default == "0.5"

Delta0 == <<0, 0>>

\* x ** n1 for the two leading exponents in use.
PowN1(x, n1) == IF n1 = "1" THEN x ELSE FSqrt(x)

\* The class function x**n1 * (1 - x)**n2 with n2 = 1.
cls(x, n1) == FMul(PowN1(x, n1), FSub(Unit, x))

RECURSIVE Binom(_, _)
Binom(n, r) ==
    IF r = 0 \/ r = n THEN 1 ELSE Binom(n - 1, r - 1) + Binom(n - 1, r)

bernstein(x, r, n) ==
    FMul(FMul(FromInt(Binom(n, r)), IPow(x, r)), IPow(FSub(Unit, x), n - r))

\* sum over r < k of a[r] * bernstein(x, r, len(a) - 1).
RECURSIVE ShapeSum(_, _, _)
ShapeSum(x, a, k) ==
    IF k = 0 THEN 0
    ELSE FAdd(ShapeSum(x, a, k - 1),
              FMul(a[k], bernstein(x, k - 1, Len(a) - 1)))

cst_at(x, a, delta, n1) ==
    FAdd(FAdd(FMul(cls(x, n1), ShapeSum(x, a, Len(a))),
              FMul(FSub(Unit, x), delta[1])),
         FMul(x, delta[2]))

\* cst(x, a, delta=(0.0, 0.0), n1=0.5): the CST curve with coefficients a
\* evaluated at every point of x.
cst(x, a, delta, n1) == [i \in 1..Len(x) |-> cst_at(x[i], a, delta, n1)]

\* fit(x, y, n, delta=None, n1=0.5): the least-squares fit of an n-term CST
\* curve to the samples (x, y).  The boundary pair is fitted with the
\* coefficients when delta is None and held at delta otherwise.  The
\* minimisation ranges over the lattice FitCoefs (coefficients) and
\* FitDeltas (boundary values); among equal residuals the solution of least
\* norm is returned, as the library's lstsq does.
FitCoefs == <<0 - Unit \div 2, 0, Unit>>

FitDeltas == <<0, Unit \div 16>>

Count(n, delta) ==
    (Len(FitCoefs) ^ n)
        * (IF delta = None THEN Len(FitDeltas) * Len(FitDeltas) ELSE 1)

\* The k-th point of the lattice: k's digits pick the coefficients, what
\* remains of k picks the boundary pair.
Digit(k, j) == (k \div (Len(FitCoefs) ^ (j - 1))) % Len(FitCoefs)

Pair(d) ==
    <<FitDeltas[(d % Len(FitDeltas)) + 1],
      FitDeltas[(d \div Len(FitDeltas)) + 1]>>

Candidate(k, n, delta) ==
    [a |-> [j \in 1..n |-> FitCoefs[Digit(k, j) + 1]],
     delta |-> IF delta = None THEN Pair(k \div (Len(FitCoefs) ^ n))
               ELSE delta.val]

RECURSIVE SumSq(_, _)
SumSq(f, k) == IF k = 0 THEN 0 ELSE SumSq(f, k - 1) + f[k] * f[k]

Residuals(x, y, c, n1) ==
    [i \in 1..Len(x) |-> y[i] - cst_at(x[i], c.a, c.delta, n1)]

Scored(c, e) ==
    [a |-> c.a, delta |-> c.delta,
     residual |-> SumSq(e, Len(e)),
     norm |-> SumSq(c.a, Len(c.a)) + SumSq(c.delta, 2)]

Score(x, y, c, n1) == Scored(c, Residuals(x, y, c, n1))

Better(p, q) ==
    IF q.residual < p.residual
           \/ (q.residual = p.residual /\ q.norm < p.norm)
    THEN q ELSE p

RECURSIVE BestIn(_, _, _, _, _, _, _)
BestIn(x, y, n, delta, n1, lo, hi) ==
    IF lo = hi THEN Score(x, y, Candidate(lo, n, delta), n1)
    ELSE Better(BestIn(x, y, n, delta, n1, lo, (lo + hi) \div 2),
                BestIn(x, y, n, delta, n1, (lo + hi) \div 2 + 1, hi))

Fitted(best) == [status |-> "ok", a |-> best.a, delta |-> best.delta]

fit(x, y, n, delta, n1) ==
    IF Len(x) # Len(y) THEN [status |-> "shape_mismatch"]
    ELSE IF n <= 0 THEN [status |-> "invalid_argument"]
    ELSE Fitted(BestIn(x, y, n, delta, n1, 0, Count(n, delta) - 1))

\* ------------------------------------------------------------ airfoil.py
\* The two calls coords2cst makes to fit, in order, each with its arguments
\* and what it returned.
FitCalls(y_c, n_ca, ca, t, n_th, th) ==
    <<[y |-> y_c, n |-> n_ca, delta |-> Some(Delta0), n1 |-> "1", ret |-> ca],
      [y |-> t, n |-> n_th, delta |-> None, n1 |-> N1Default, ret |-> th]>>

\* Line 40, a faulty variant: the first element of the thickness fit's
\* boundary pair returned as t_te.
coords2cst_return_first(y_c, t, n_ca, n_th, ca, th) ==
    IF th.status # "ok" THEN [status |-> th.status]
    ELSE [status |-> "ok", a_ca |-> ca.a, a_th |-> th.a, t_te |-> th.delta[1],
          calls |-> FitCalls(y_c, n_ca, ca, t, n_th, th)]

\* Line 40: return a_ca, a_th, t_te[1], once both fits have returned.
coords2cst_return(y_c, t, n_ca, n_th, ca, th) ==
    IF th.status # "ok" THEN [status |-> th.status]
    ELSE [status |-> "ok", a_ca |-> ca.a, a_th |-> th.a, t_te |-> th.delta[2],
          calls |-> FitCalls(y_c, n_ca, ca, t, n_th, th)]

\* Line 38: a_th, t_te = fit(x, t, n_th), once the camber fit has returned.
coords2cst_fit_th(x, y_c, t, n_ca, n_th, ca) ==
    IF ca.status # "ok" THEN [status |-> ca.status]
    ELSE coords2cst_return(y_c, t, n_ca, n_th, ca,
                           fit(x, t, n_th, None, N1Default))

\* Line 37: a_ca, _ = fit(x, y_c, n_ca, delta=(0.0, 0.0), n1=1).
coords2cst_fit_ca(x, y_c, t, n_ca, n_th) ==
    coords2cst_fit_th(x, y_c, t, n_ca, n_th,
                      fit(x, y_c, n_ca, Some(Delta0), "1"))

\* Lines 34-35, a faulty variant: the camber taken as y_u + y_l, the
\* halving dropped.
coords2cst_split_no_half(x, s, d, n_ca, n_th) ==
    IF s.status # "ok" THEN [status |-> s.status]
    ELSE IF d.status # "ok" THEN [status |-> d.status]
    ELSE coords2cst_fit_ca(x, s.val, d.val, n_ca, n_th)

\* Lines 34-35: y_c = (y_u + y_l) / 2 and t = y_u - y_l, s and d being the
\* sum and the difference numpy computed or failed to.
coords2cst_split(x, s, d, n_ca, n_th) ==
    IF s.status # "ok" THEN [status |-> s.status]
    ELSE IF d.status # "ok" THEN [status |-> d.status]
    ELSE coords2cst_fit_ca(x, NpHalf(s.val), d.val, n_ca, n_th)

\* A faulty variant of coords2cst: a non-positive count raised to 1.
coords2cst_coerced(x, y_u, y_l, n_ca, n_th) ==
    coords2cst_split(x, NpAdd(y_u, y_l), NpSub(y_u, y_l),
                     IF n_ca < 1 THEN 1 ELSE n_ca,
                     IF n_th < 1 THEN 1 ELSE n_th)

\* coords2cst(x, y_u, y_l, n_ca, n_th)
coords2cst(x, y_u, y_l, n_ca, n_th) ==
    coords2cst_split(x, NpAdd(y_u, y_l), NpSub(y_u, y_l), n_ca, n_th)

\* Lines 69-71, faulty variants: the halving of t dropped from the upper
\* curve; the lower curve built with the upper curve's sign.
cst2coords_return_no_half(x, y_c, t) ==
    [status |-> "ok", x |-> x, y_u |-> NpAdd(y_c, t).val,
     y_l |-> NpSub(y_c, NpHalf(t)).val, y_c |-> y_c, t |-> t]

cst2coords_return_sign_slip(x, y_c, t) ==
    [status |-> "ok", x |-> x, y_u |-> NpAdd(y_c, NpHalf(t)).val,
     y_l |-> NpAdd(y_c, NpHalf(t)).val, y_c |-> y_c, t |-> t]

\* Lines 69-71: y_u = y_c + t / 2, y_l = y_c - t / 2, and the return.
cst2coords_return(x, y_c, t) ==
    [status |-> "ok", x |-> x, y_u |-> NpAdd(y_c, NpHalf(t)).val,
     y_l |-> NpSub(y_c, NpHalf(t)).val, y_c |-> y_c, t |-> t]

\* Lines 66-67: y_c = cst(x, a_ca, n1=1) and t = cst(x, a_th,
\* delta=(0, t_te)), g being the grid cosspace returned or its failure.
cst2coords_on(g, a_ca, a_th, t_te) ==
    IF g.status # "ok" THEN [status |-> g.status]
    ELSE cst2coords_return(g.val, cst(g.val, a_ca, Delta0, "1"),
                           cst(g.val, a_th, <<0, t_te>>, N1Default))

\* Faulty variants of cst2coords: n_coords silently raised to the smallest
\* grid; the grid size read from the component's configuration, state a
\* call leaves behind for the next.
cst2coords_clamped(a_ca, a_th, t_te, n_coords) ==
    cst2coords_on(cosspace(0, Unit, IF n_coords < 2 THEN 2 ELSE n_coords),
                  a_ca, a_th, t_te)

cst2coords_configured(a_ca, a_th, t_te, n_coords) ==
    cst2coords_on(cosspace(0, Unit, IF n_coords < 2 THEN n_coords
                                    ELSE options.n_coords),
                  a_ca, a_th, t_te)

\* cst2coords(a_ca, a_th, t_te, n_coords=100)
cst2coords(a_ca, a_th, t_te, n_coords) ==
    cst2coords_on(cosspace(0, Unit, n_coords), a_ca, a_th, t_te)

\* AirfoilComponent.initialize: the declared options and their defaults.
DefaultNCa == 6
DefaultNTh == 6
DefaultNCoords == 100

initialize ==
    [n_ca |-> DefaultNCa, n_th |-> DefaultNTh, n_coords |-> DefaultNCoords]

\* AirfoilComponent.setup: the shapes of the declared inputs.
setup(opts) == [a_ca |-> opts.n_ca, a_th |-> opts.n_th, t_te |-> 1]

\* Lines 105-112, a faulty variant: the upper and lower curves re-derived
\* from the rounded camber and thickness.
compute_coords_round_rederived(r, p) ==
    cst2coords_return(NpRoundArr(r.x, p), NpRoundArr(r.y_c, p),
                      NpRoundArr(r.t, p))

\* Lines 105-112: np.round of each of the five arrays.
compute_coords_round(r, p) ==
    [status |-> "ok",
     x |-> NpRoundArr(r.x, p),
     y_u |-> NpRoundArr(r.y_u, p),
     y_l |-> NpRoundArr(r.y_l, p),
     y_c |-> NpRoundArr(r.y_c, p),
     t |-> NpRoundArr(r.t, p)]

\* Lines 104-113: r being what cst2coords returned or its failure.
compute_coords_return(r, precision) ==
    IF r.status # "ok" THEN r
    ELSE IF precision # None THEN compute_coords_round(r, precision.val)
    ELSE r

\* A faulty variant of compute_coords: an n_coords of 0 taken for "not given"
\* (n_coords or option).
compute_coords_falsy(opts, inputs, precision, n_coords) ==
    compute_coords_return(
        cst2coords(inputs.a_ca, inputs.a_th, inputs.t_te[1],
                   IF n_coords = None THEN opts.n_coords
                   ELSE IF n_coords.val = 0 THEN opts.n_coords
                   ELSE n_coords.val),
        precision)

\* AirfoilComponent.compute_coords(inputs, precision=None, n_coords=None)
compute_coords(opts, inputs, precision, n_coords) ==
    compute_coords_return(
        cst2coords(inputs.a_ca, inputs.a_th, inputs.t_te[1],
                   IF n_coords = None THEN opts.n_coords ELSE n_coords.val),
        precision)

\* ------------------------------------------------------------- inputs
CoefValues == {FitCoefs[i] : i \in DOMAIN FitCoefs}

TeValues == {FitDeltas[i] : i \in DOMAIN FitDeltas}

Arrays(n) == [1..n -> CoefValues]

CoefArrays == UNION {Arrays(n) : n \in 1..MaxN}

\* What a caller holds to convert: coefficient arrays (t_te in an array of
\* one element, as the component's input is) or surface coordinates.
Coefficients(s) == [a_ca : s, a_th : s, t_te : [1..1 -> TeValues]]

IsCoefficients(a) == DOMAIN a = {"a_ca", "a_th", "t_te"}

IsCoords(a) == DOMAIN a = {"x", "y_u", "y_l"}

\* The values the host gives the declared inputs before any is set.
DefaultInputs(opts) ==
    LET sh == setup(opts)
    IN  [a_ca |-> [i \in 1..sh.a_ca |-> Unit],
         a_th |-> [i \in 1..sh.a_th |-> Unit],
         t_te |-> [i \in 1..sh.t_te |-> Unit]]

\* The input vectors the host hands to compute_coords: of the declared
\* shape, all zero or a leading coefficient followed by equal ones.
ShapedArrays(n) ==
    {[i \in 1..n |-> 0],
     [i \in 1..n |-> IF i = 1 THEN 0 - Unit \div 2 ELSE Unit \div 4]}

InputsOf(opts) ==
    LET sh == setup(opts)
    IN  [a_ca : ShapedArrays(sh.a_ca), a_th : ShapedArrays(sh.a_th),
         t_te : [1..sh.t_te -> TeValues]]

Shaped(a, opts) ==
    /\ IsCoefficients(a)
    /\ Len(a.a_ca) = setup(opts).a_ca
    /\ Len(a.a_th) = setup(opts).a_th
    /\ Len(a.t_te) = setup(opts).t_te

ShapeChoices == {1, 2}

\* The configurations of the component: the defaults, and every choice of
\* small counts.
OptionChoices ==
    {initialize}
        \cup [n_ca : ShapeChoices, n_th : ShapeChoices,
              n_coords : 0..MaxOverride]

Precisions == {None} \cup {Some(p) : p \in 0..MaxDecimals}

NCoordsOverrides == {None} \cup {Some(n) : n \in 0..MaxOverride}

\* Coefficient vectors for round trips: constant, or two values alternating.
RoundTripLens == {1, 2}

RoundTripArrays ==
    UNION {{[i \in 1..n |-> 0], [i \in 1..n |-> Unit],
            [i \in 1..n |-> IF i % 2 = 1 THEN Unit ELSE 0 - Unit \div 2]}
           : n \in RoundTripLens}

\* Surface coordinates written by hand: x, y_u and y_l each of a length of
\* its own.
XGrid(m) == [i \in 1..m |-> RN((i - 1) * Unit, MaxLen)]

Samples == {[i \in 1..m |-> c] : m \in 1..MaxLen, c \in {0, Unit \div 8}}

HandCoords == [x : {XGrid(m) : m \in 1..MaxLen}, y_u : Samples, y_l : Samples]

Orders == {0 - 1, 0, 1, 2}

Idle ==
    /\ pc = "idle"
    /\ call = None
    /\ ret = None

\* ------------------------------------------------------------ actions
\* A component is instantiated with the options o and set up.
Configure(o) ==
    /\ pc = "idle"
    /\ options' = o
    /\ arrays' = DefaultInputs(o)
    /\ UNCHANGED <<pc, call, ret, memo>>

\* The caller takes up the arrays a.
SetArrays(a) ==
    /\ pc = "idle"
    /\ arrays' = a
    /\ UNCHANGED <<options, pc, call, ret, memo>>

Cst2coordsCall(n) ==
    /\ pc = "idle"
    /\ IsCoefficients(arrays)
    /\ pc' = "done"
    /\ call' = [op |-> "cst2coords", a_ca |-> arrays.a_ca,
                a_th |-> arrays.a_th, t_te |-> arrays.t_te[1], n_coords |-> n]
    /\ ret' = cst2coords(arrays.a_ca, arrays.a_th, arrays.t_te[1], n)
    /\ UNCHANGED <<options, arrays, memo>>

Coords2cstCall(n_ca, n_th) ==
    /\ pc = "idle"
    /\ IsCoords(arrays)
    /\ pc' = "done"
    /\ call' = [op |-> "coords2cst", x |-> arrays.x, y_u |-> arrays.y_u,
                y_l |-> arrays.y_l, n_ca |-> n_ca, n_th |-> n_th]
    /\ ret' = coords2cst(arrays.x, arrays.y_u, arrays.y_l, n_ca, n_th)
    /\ UNCHANGED <<options, arrays, memo>>

ComputeCoordsCall(precision, n) ==
    /\ pc = "idle"
    /\ Shaped(arrays, options)
    /\ pc' = "done"
    /\ call' = [op |-> "compute_coords", inputs |-> arrays,
                precision |-> precision, n_coords |-> n]
    /\ ret' = compute_coords(options, arrays, precision, n)
    /\ UNCHANGED <<options, arrays, memo>>

Return ==
    /\ pc = "done"
    /\ pc' = "idle"
    /\ call' = None
    /\ ret' = None
    /\ UNCHANGED <<options, arrays, memo>>

\* The caller keeps what cst2coords returned, remembers the call it came
\* from, and takes up the returned x, y_u and y_l.
TakeCoords ==
    /\ pc = "done"
    /\ call.op = "cst2coords"
    /\ ret.status = "ok"
    /\ memo = None
    /\ memo' = [a_ca |-> call.a_ca, a_th |-> call.a_th, t_te |-> call.t_te,
                n_coords |-> call.n_coords, ret |-> ret]
    /\ arrays' = [x |-> ret.x, y_u |-> ret.y_u, y_l |-> ret.y_l]
    /\ pc' = "idle"
    /\ call' = None
    /\ ret' = None
    /\ UNCHANGED options

Forget ==
    /\ pc = "idle"
    /\ memo # None
    /\ memo' = None
    /\ UNCHANGED <<options, arrays, pc, call, ret>>

Init ==
    /\ options = initialize
    /\ arrays = DefaultInputs(initialize)
    /\ Idle
    /\ memo = None

\* ----------------------------------------------------- cst2coords alone
NextCst ==
    \/ \E a \in Coefficients(CoefArrays) : SetArrays(a)
    \/ \E n \in 0..MaxCoords : Cst2coordsCall(n)
    \/ Return

SpecCst == Init /\ [][NextCst]_vars

\* ------------------------------------------------------ the component
Next ==
    \/ \E o \in OptionChoices : Configure(o)
    \/ \E a \in InputsOf(options) : SetArrays(a)
    \/ \E precision \in Precisions, n \in NCoordsOverrides :
          ComputeCoordsCall(precision, n)
    \/ \E n \in 0..MaxOverride : Cst2coordsCall(n)
    \/ Return

Spec == Init /\ [][Next]_vars

\* ------------------------------------------- round trips and coords2cst
NextFit ==
    \/ memo = None /\ \E a \in Coefficients(RoundTripArrays) : SetArrays(a)
    \/ memo = None /\ \E c \in HandCoords : SetArrays(c)
    \/ \E n \in 2..MaxCoords : Cst2coordsCall(n)
    \/ TakeCoords
    \/ \E n_ca \in Orders, n_th \in Orders : Coords2cstCall(n_ca, n_th)
    \/ Forget
    \/ Return

SpecFit == Init /\ [][NextFit]_vars

\* ------------------------------------------------- repeated conversions
DetOptions == [n_ca : {1}, n_th : {1}, n_coords : 2..MaxOverride]

NextDet ==
    \/ \E o \in DetOptions : Configure(o)
    \/ \E a \in InputsOf(options) : SetArrays(a)
    \/ \E n \in 0..MaxOverride : Cst2coordsCall(n)
    \/ \E n \in 2..MaxOverride : ComputeCoordsCall(None, Some(n))
    \/ TakeCoords
    \/ Coords2cstCall(1, 1)
    \/ Forget
    \/ Return

SpecDet == Init /\ [][NextDet]_vars

\* ------------------------------------------------------------- claims
Returned(name) == pc = "done" /\ call.op = name /\ ret.status = "ok"

Indices == IF ret.status = "ok" THEN 1..Len(ret.x) ELSE {}

\* C1 as stated: at every grid index of every cst2coords output,
\* y_u - y_l is t and (y_u + y_l) / 2 is y_c, exactly (evaluated as numpy
\* evaluates the two expressions).
C1_IdentityExact ==
    Returned("cst2coords") =>
        \A i \in Indices :
            /\ FSub(ret.y_u[i], ret.y_l[i]) = ret.t[i]
            /\ RN(FAdd(ret.y_u[i], ret.y_l[i]), 2) = ret.y_c[i]

\* Whether the exact value k / 2 is a value of the floating-point format.
HalfIsFloat(k) == k % 2 = 0 /\ IsFloat(k \div 2)

NoRounding(i) ==
    /\ HalfIsFloat(2 * ret.y_c[i] + ret.t[i])
    /\ HalfIsFloat(2 * ret.y_c[i] - ret.t[i])

\* C1 as amended: at every grid index where y_c + t/2 and y_c - t/2 are
\* values of the floating-point format (the reconstruction did not round),
\* y_u - y_l is t and (y_u + y_l) / 2 is y_c, exactly.
C1_IdentityWhereExact ==
    Returned("cst2coords") =>
        \A i \in Indices :
            NoRounding(i) =>
                /\ ret.y_u[i] - ret.y_l[i] = ret.t[i]
                /\ ret.y_u[i] + ret.y_l[i] = 2 * ret.y_c[i]

C1_Witness ==
    /\ Returned("cst2coords")
    /\ \E i \in Indices : NoRounding(i) /\ ret.t[i] # 0 /\ ret.y_c[i] # 0
    /\ \E i \in Indices : ~NoRounding(i)

\* C7: with a_ca all zero and t_te = 0, cst2coords returns y_c = 0 and
\* y_u = -y_l at every grid index, whatever a_th and n_coords are.
C7_Symmetric ==
    (/\ Returned("cst2coords")
     /\ \A k \in DOMAIN call.a_ca : call.a_ca[k] = 0
     /\ call.t_te = 0)
        => \A i \in Indices :
               ret.y_c[i] = 0 /\ ret.y_u[i] = 0 - ret.y_l[i]

C7_Witness ==
    /\ Returned("cst2coords")
    /\ \A k \in DOMAIN call.a_ca : call.a_ca[k] = 0
    /\ call.t_te = 0
    /\ Len(call.a_th) > 1
    /\ \E i \in Indices : ret.y_u[i] > 0
    /\ \E i \in Indices : ret.y_u[i] < 0

\* The grid size a call asks for: cst2coords' argument; for compute_coords
\* the override when one is given, the configured option when it is None.
RequestedN ==
    IF call.op = "cst2coords" THEN call.n_coords
    ELSE IF call.n_coords = None THEN options.n_coords
    ELSE call.n_coords.val

GridCall == pc = "done" /\ call.op \in {"cst2coords", "compute_coords"}

\* C5: cst2coords, and compute_coords by option or by override, asked for a
\* grid of fewer than 2 points fails with an invalid-argument failure and
\* returns no sequence.
C5_SmallGridRejected ==
    (GridCall /\ RequestedN < 2) => ret = [status |-> "invalid_argument"]

C5_Witness ==
    /\ pc = "done"
    /\ call.op = "compute_coords"
    /\ call.n_coords = None
    /\ options.n_coords = 1
    /\ ret.status = "invalid_argument"

Curves == {"x", "y_u", "y_l", "y_c", "t"}

\* C6: the five sequences compute_coords returns all have length L, the
\* n_coords argument when one is given and the configured option (100
\* unless set) when it is None; it returns them whenever L >= 2.
C6_Length ==
    (pc = "done" /\ call.op = "compute_coords") =>
        /\ ret.status = "ok" => \A c \in Curves : Len(ret[c]) = RequestedN
        /\ RequestedN >= 2 => ret.status = "ok"
        /\ (call.n_coords = None /\ options = initialize /\ ret.status = "ok")
               => Len(ret.x) = 100

C6_Witness ==
    /\ Returned("compute_coords")
    /\ call.n_coords # None
    /\ options.n_coords >= 2
    /\ call.n_coords.val # options.n_coords
    /\ Len(ret.y_u) = call.n_coords.val

\* C10: with precision None compute_coords returns what cst2coords returns
\* for a_ca, a_th and t_te[0]; with precision p each of the five sequences
\* is its own unrounded sequence rounded element by element to p decimals.
C10_Rounding ==
    (pc = "done" /\ call.op = "compute_coords") =>
        LET raw == cst2coords(call.inputs.a_ca, call.inputs.a_th,
                              call.inputs.t_te[1], RequestedN)
        IN  IF call.precision = None \/ raw.status # "ok" THEN ret = raw
            ELSE /\ ret.status = "ok"
                 /\ \A c \in Curves :
                        /\ Len(ret[c]) = Len(raw[c])
                        /\ \A i \in 1..Len(raw[c]) :
                               ret[c][i] = NpRound(raw[c][i], call.precision.val)

C10_Witness ==
    /\ Returned("compute_coords")
    /\ call.precision # None
    /\ \E i \in Indices :
           ret.y_u[i] # FAdd(ret.y_c[i], RN(ret.t[i], 2))

\* ---- coords2cst
EqualLengths ==
    Len(call.y_u) = Len(call.x) /\ Len(call.y_l) = Len(call.x)

Coords2cstDone == pc = "done" /\ call.op = "coords2cst"

\* C3 as stated: coords2cst called with y_u or y_l of a length other than
\* x's (counts positive) fails with a shape-mismatch error and returns
\* nothing else, length 1 included.
C3_MismatchFails ==
    (Coords2cstDone /\ ~EqualLengths /\ call.n_ca >= 1 /\ call.n_th >= 1)
        => ret = [status |-> "shape_mismatch"]

\* C4: coords2cst called with n_ca <= 0 or n_th <= 0 fails and returns no
\* result tuple; the failure is the fit's invalid-argument failure whenever
\* the three sequences have one length (otherwise the shape mismatch is
\* raised first).
C4_NonPositiveRejected ==
    (Coords2cstDone /\ (call.n_ca <= 0 \/ call.n_th <= 0))
        => /\ DOMAIN ret = {"status"}
           /\ ret.status \in {"invalid_argument", "shape_mismatch"}
           /\ EqualLengths => ret.status = "invalid_argument"

C4_Witness ==
    /\ Coords2cstDone
    /\ EqualLengths
    /\ call.n_ca = 1
    /\ call.n_th = 0
    /\ ret = [status |-> "invalid_argument"]

\* C8: for sequences of one length and positive counts coords2cst returns
\* a_ca of length n_ca, a_th of length n_th, and as t_te the second element
\* of the boundary pair returned by its second fit, the fit of the
\* thickness y_u - y_l.
C8_Triple ==
    (Coords2cstDone /\ EqualLengths /\ call.n_ca >= 1 /\ call.n_th >= 1)
        => /\ ret.status = "ok"
           /\ Len(ret.a_ca) = call.n_ca
           /\ Len(ret.a_th) = call.n_th
           /\ ret.calls[2].y = NpSub(call.y_u, call.y_l).val
           /\ ret.a_th = ret.calls[2].ret.a
           /\ ret.t_te = ret.calls[2].ret.delta[2]

C8_Witness ==
    /\ Returned("coords2cst")
    /\ EqualLengths
    /\ call.n_ca # call.n_th
    /\ ret.calls[2].ret.delta[1] # ret.calls[2].ret.delta[2]
    /\ ret.calls[1].ret.delta # ret.calls[2].ret.delta
    /\ ret.t_te # 0

\* ---- round trip
\* A coords2cst call on the x, y_u and y_l a remembered cst2coords call
\* returned, with the lengths of that call's coefficient vectors as counts.
RoundTrip ==
    /\ Coords2cstDone
    /\ memo # None
    /\ call.x = memo.ret.x
    /\ call.y_u = memo.ret.y_u
    /\ call.y_l = memo.ret.y_l
    /\ call.n_ca = Len(memo.a_ca)
    /\ call.n_th = Len(memo.a_th)

\* The fitted curves pass through the samples they were fitted to.
FitExact ==
    /\ cst(call.x, ret.a_ca, Delta0, "1") = ret.calls[1].y
    /\ cst(call.x, ret.a_th, ret.calls[2].ret.delta, N1Default)
           = ret.calls[2].y

Recovered ==
    /\ ret.a_ca = memo.a_ca
    /\ ret.a_th = memo.a_th
    /\ ret.t_te = memo.t_te

SplitInverts ==
    /\ ret.calls[1].y = memo.ret.y_c
    /\ ret.calls[2].y = memo.ret.t

Unrounded ==
    \A i \in 1..Len(memo.ret.x) :
        /\ HalfIsFloat(2 * memo.ret.y_c[i] + memo.ret.t[i])
        /\ HalfIsFloat(2 * memo.ret.y_c[i] - memo.ret.t[i])

\* The grid has a point inside (0, 1) for every coefficient to be fitted.
Determined ==
    /\ memo.n_coords >= call.n_ca + 2
    /\ memo.n_coords >= call.n_th + 2

SameArguments ==
    /\ memo # None
    /\ call.a_ca = memo.a_ca
    /\ call.a_th = memo.a_th
    /\ call.t_te = memo.t_te
    /\ call.n_coords = memo.n_coords

====
